---- MODULE Spec2Model ----
(***************************************************************************)
(* The progress store (src/hooks/useProgress.ts) and the session           *)
(* controller with its queue builder (src/App.tsx) of the flashcard        *)
(* application, as one state machine.                                      *)
(*                                                                         *)
(* State: the React state of useProgress (progress, loading) and of App    *)
(* (mode, currentQueue, currentIndex), the module-level QUESTIONS array    *)
(* (bank), the two localStorage items, and whether the auto-save effect of *)
(* App is scheduled (savePending), and the dialog the last operation has   *)
(* shown (dialog: an alert, or a confirm that was declined).               *)
(*                                                                         *)
(* Four history variables record what was done: request, the arguments of  *)
(* the startSession call that built the current queue; answered, the       *)
(* number of answers recorded for each question since the last reset;      *)
(* cleared, the questions whose record the last confirmed reset removed,   *)
(* while no answer has been recorded since; session, the length of the     *)
(* queue startSession built in this run of the page and the number of      *)
(* handleCardResult calls since, while that session lasts and, when the    *)
(* last of them has ended it, until the auto-save effect has run.          *)
(* A fifth one, studied, lists for the same session and for as long the    *)
(* questions answered with the answer given to each.                       *)
(*                                                                         *)
(* UserProgress.lastReviewed (Date.now()) is written by updateProgress and *)
(* read nowhere; the records of the model carry the other three fields.    *)
(***************************************************************************)
EXTENDS Integers, Sequences, FiniteSets, TLC

VARIABLES bank, progress, loading, mode, currentQueue, currentIndex,
          storedProgress, storedSession, savePending, dialog,
          request, answered, cleared, session, studied

vars == <<bank, progress, loading, mode, currentQueue, currentIndex,
          storedProgress, storedSession, savePending, dialog,
          request, answered, cleared, session, studied>>

\* the variables that record what was done, not what the program holds
history == <<request, answered, cleared, session, studied>>

----------------------------------------------------------------------------
(* Bounds of the model *)

\* the largest question bank of Spec; SpecBuild has one question more
MaxBank == 2

\* updateProgress is not taken once a record's reviewCount has reached this
MaxReview == 2

\* SpecBuild also has the banks of BatchSize and BatchSize + MaxOver questions
MaxOver == 3

\* the longest period of the random draws of a sort of a long array
MaxPeriod == 2

\* SpecStartup: the largest bank, and the largest id of a stored session
MaxStored == 3

\* SpecScenario: the largest bank (categories A: 3, B: 2)
MaxScenario == 5

----------------------------------------------------------------------------
(* types.ts (appended to src/hooks/useProgress.ts) *)

QuestionType == {"single", "multiple", "judgment"}

Status == {"new", "learning", "mastered"}

DASHBOARD == "DASHBOARD"

STUDY == "STUDY"

\* `undefined`: an optional argument not given, a missing property
Undefined == "undefined"

----------------------------------------------------------------------------
(* The question bank, services/questions: ids 1..n in loading order.       *)

Category(id) == IF id \in {2, 4} THEN "B" ELSE "A"

Type(id) == CASE id % 3 = 1 -> "single"
              [] id % 3 = 2 -> "multiple"
              [] OTHER      -> "judgment"

Categories == {"A", "B"}

\* the QUESTIONS array as the module exports it, before any sort
QUESTIONS(n) == [i \in 1..n |-> i]

----------------------------------------------------------------------------
(* localStorage: an item is absent (getItem gives null), or holds the JSON *)
(* text of a value, or holds text JSON.parse throws on.                    *)

NoItem == [kind |-> "null"]

Malformed == [kind |-> "garbage"]

JSONstringify(v) == [kind |-> "json", value |-> v]

\* JSON.parse throws on Malformed: callers test Parses first (try/catch)
Parses(item) == item.kind = "json"

JSONparse(item) == item.value

----------------------------------------------------------------------------
(* Sequence helpers: Array.prototype.filter, slice, indexOf *)

RECURSIVE Filter(_, _)
Filter(arr, keep) ==
  IF arr = << >> THEN << >>
  ELSE (IF Head(arr) \in keep THEN <<Head(arr)>> ELSE << >>) \o Filter(Tail(arr), keep)

Slice(arr, from, to) ==
  [i \in 1..((IF to < Len(arr) THEN to ELSE Len(arr)) - from) |-> arr[from + i]]

Range(arr) == {arr[i] : i \in 1..Len(arr)}

----------------------------------------------------------------------------
(* ProgressStore: src/hooks/useProgress.ts *)

\* useState<ProgressMap>({})
EmptyProgress == [id \in {} |-> [status |-> "new", difficultyScore |-> 0, reviewCount |-> 0]]

\* Mutant of currentEntry: the default record counts from 1.
currentEntry_countFromOne(prev, questionId) ==
  IF questionId \in DOMAIN prev
  THEN prev[questionId]
  ELSE [status |-> "new", difficultyScore |-> 0, reviewCount |-> 1]

\* prev[questionId] || { status: 'new', difficultyScore: 0, reviewCount: 0 }
currentEntry(prev, questionId) ==
  IF questionId \in DOMAIN prev
  THEN prev[questionId]
  ELSE [status |-> "new", difficultyScore |-> 0, reviewCount |-> 0]

\* Mutant of updatedEntry: a hard answer gives the middle score 2.
updatedEntry_middleScore(current, difficulty) ==
  LET newReviewCount == current.reviewCount + 1
      newStatus == IF difficulty = "hard" THEN "learning" ELSE "mastered"
      newScore  == IF difficulty = "hard" THEN 2 ELSE 0
  IN [status |-> newStatus, difficultyScore |-> newScore, reviewCount |-> newReviewCount]

\* Mutant of updatedEntry: the two answers are taken for each other.
updatedEntry_inverted(current, difficulty) ==
  LET newReviewCount == current.reviewCount + 1
      newStatus == IF difficulty = "easy" THEN "learning" ELSE "mastered"
      newScore  == IF difficulty = "easy" THEN 5 ELSE 0
  IN [status |-> newStatus, difficultyScore |-> newScore, reviewCount |-> newReviewCount]

\* Mutant of updatedEntry: an easy answer lowers the score by one step, and
\* the question is mastered only once the score is 0.
updatedEntry_decay(current, difficulty) ==
  LET newScore == IF difficulty = "hard" THEN 5
                  ELSE IF current.difficultyScore > 0 THEN current.difficultyScore - 1
                  ELSE 0
  IN [status |-> IF newScore = 0 THEN "mastered" ELSE "learning",
      difficultyScore |-> newScore,
      reviewCount |-> current.reviewCount + 1]

\* Mutant of updatedEntry: an easy answer sets the status and leaves the score.
updatedEntry_keepScore(current, difficulty) ==
  [status |-> IF difficulty = "hard" THEN "learning" ELSE "mastered",
   difficultyScore |-> IF difficulty = "hard" THEN 5 ELSE current.difficultyScore,
   reviewCount |-> current.reviewCount + 1]

\* the record updateProgress stores for an answer
updatedEntry(current, difficulty) ==
  LET newReviewCount == current.reviewCount + 1
      newStatus == IF difficulty = "hard" THEN "learning" ELSE "mastered"
      newScore  == IF difficulty = "hard" THEN 5 ELSE 0
  IN [status |-> newStatus, difficultyScore |-> newScore, reviewCount |-> newReviewCount]

\* Mutant of updateProgress: the record is written under the next key.
updateProgress_nextKey(prev, questionId, difficulty) ==
  LET newState == [id \in DOMAIN prev \cup {questionId + 1} |->
                     IF id = questionId + 1
                     THEN updatedEntry(currentEntry(prev, questionId), difficulty)
                     ELSE prev[id]]
  IN [progress |-> newState, stored |-> JSONstringify(newState)]

\* Mutant of updateProgress: the new map holds the updated record only.
updateProgress_dropsOthers(prev, questionId, difficulty) ==
  LET newState == [id \in {questionId} |->
                     updatedEntry(currentEntry(prev, questionId), difficulty)]
  IN [progress |-> newState, stored |-> JSONstringify(newState)]

\* Mutant of updateProgress: the map is written to storage before the update.
updateProgress_staleWrite(prev, questionId, difficulty) ==
  LET newState == [id \in DOMAIN prev \cup {questionId} |->
                     IF id = questionId
                     THEN updatedEntry(currentEntry(prev, questionId), difficulty)
                     ELSE prev[id]]
  IN [progress |-> newState, stored |-> JSONstringify(prev)]

\* newState = { ...prev, [questionId]: updatedEntry }, and what
\* localStorage.setItem(STORAGE_KEY, JSON.stringify(newState)) stores
updateProgress(prev, questionId, difficulty) ==
  LET newState == [id \in DOMAIN prev \cup {questionId} |->
                     IF id = questionId
                     THEN updatedEntry(currentEntry(prev, questionId), difficulty)
                     ELSE prev[id]]
  IN [progress |-> newState, stored |-> JSONstringify(newState)]

\* the load effect: the stored map when there is one and it parses, else the
\* state is left as it is
loadProgress(stored, current) ==
  IF stored # NoItem /\ Parses(stored) THEN JSONparse(stored) ELSE current

----------------------------------------------------------------------------
(* Array.prototype.sort with the comparators of startSession.              *)
(* A comparator is  d || (0.5 - Math.random()) : the difference d when it  *)
(* is not 0, else a random sign.  The k-th call of Math.random in one sort *)
(* gives a negative result exactly when k is in draws.  The sort is a      *)
(* binary insertion sort: the element to insert is compared with the       *)
(* middle of the sorted part and goes left on a negative result, right     *)
(* otherwise.                                                              *)

\* d || r
OrElse(d, r) == IF d # 0 THEN d ELSE r

\* 0.5 - Math.random(), by its sign
RandomSign(k, draws) == IF k \in draws THEN -1 ELSE 1

\* [pos, used]: how many elements of arr[1..hi] stay left of x, and the
\* number of random draws used so far
RECURSIVE BinarySearch(_, _, _, _, _, _, _)
BinarySearch(arr, x, lo, hi, cmp, draws, used) ==
  IF lo >= hi THEN [pos |-> lo, used |-> used]
  ELSE LET mid   == lo + ((hi - lo) \div 2)
           d     == cmp[x][arr[mid + 1]]
           order == OrElse(d, RandomSign(used + 1, draws))
           used2 == IF d = 0 THEN used + 1 ELSE used
       IN IF order < 0
          THEN BinarySearch(arr, x, lo, mid, cmp, draws, used2)
          ELSE BinarySearch(arr, x, mid + 1, hi, cmp, draws, used2)

\* arr[1..start-1] is sorted; insert arr[start], arr[start+1], ...
RECURSIVE BinaryInsertionSort(_, _, _, _, _)
BinaryInsertionSort(arr, start, cmp, draws, used) ==
  IF start > Len(arr) THEN arr
  ELSE LET x == arr[start]
           r == BinarySearch(arr, x, 0, start - 1, cmp, draws, used)
           moved == [i \in 1..Len(arr) |->
                       IF i <= r.pos THEN arr[i]
                       ELSE IF i = r.pos + 1 THEN x
                       ELSE IF i <= start THEN arr[i - 1]
                       ELSE arr[i]]
       IN BinaryInsertionSort(moved, start + 1, cmp, draws, r.used)

ArraySort(arr, cmp, draws) ==
  IF Len(arr) < 2 THEN arr ELSE BinaryInsertionSort(arr, 2, cmp, draws, 0)

\* the most calls of the comparator in a sort of n elements
RECURSIVE Bits(_)
Bits(k) == IF k = 0 THEN 0 ELSE 1 + Bits(k \div 2)

RECURSIVE MaxCompares(_)
MaxCompares(n) == IF n < 2 THEN 0 ELSE MaxCompares(n - 1) + Bits(n - 1)

\* The random draws of one sort of n elements: every outcome for a short
\* array; for a long one the draws that repeat with a period of at most
\* MaxPeriod (all positive, all negative, every second one negative, ...).
Draws(n) ==
  IF n <= MaxBank + 1
  THEN SUBSET (1..MaxCompares(n))
  ELSE {{}} \cup {{k \in 1..MaxCompares(n) : k % p = r} : p \in 1..MaxPeriod, r \in 0..(MaxPeriod - 1)}

----------------------------------------------------------------------------
(* QueueBuilder: startSession of src/App.tsx *)

BatchSize == 30

\* progress[id]?.status || 'new'
statusOf(prog, id) == IF id \in DOMAIN prog THEN prog[id].status ELSE "new"

\* score = (s) => s === 'mastered' ? 1 : 0
score(s) == IF s = "mastered" THEN 1 ELSE 0

\* Mutant of getWeight: the threshold of a hard question is 2, not above 2.
getWeight_fromTwo(prog, id) ==
  IF id \notin DOMAIN prog THEN 3
  ELSE IF prog[id].difficultyScore >= 2 THEN 4
  ELSE IF prog[id].status = "learning" THEN 2
  ELSE 0

\* Weight: Hard(4) > New(3) > Learning(2) > Mastered(0)
getWeight(prog, id) ==
  IF id \notin DOMAIN prog THEN 3
  ELSE IF prog[id].difficultyScore > 2 THEN 4
  ELSE IF prog[id].status = "learning" THEN 2
  ELSE 0

\* Mutant of categoryOrder: the operands are swapped.
categoryOrder_swapped(prog, a, b) == score(statusOf(prog, b)) - score(statusOf(prog, a))

\* score(statusA) - score(statusB)
categoryOrder(prog, a, b) == score(statusOf(prog, a)) - score(statusOf(prog, b))

\* Mutant of smartOrder: every comparison is left to the random draw.
smartOrder_allRandom(prog, a, b) == 0

\* Mutant of smartOrder: ascending weights.
smartOrder_ascending(prog, a, b) == getWeight(prog, a) - getWeight(prog, b)

\* getWeight(b.id) - getWeight(a.id)
smartOrder(prog, a, b) == getWeight(prog, b) - getWeight(prog, a)

\* Mutant of candidates: the type is not filtered on.
candidates_noType(bnk, category, type) ==
  IF category # Undefined
  THEN Filter(bnk, {id \in Range(bnk) : Category(id) = category})
  ELSE bnk

\* candidates after the two optional filters
candidates(bnk, category, type) ==
  LET byCategory == IF category # Undefined
                    THEN Filter(bnk, {id \in Range(bnk) : Category(id) = category})
                    ELSE bnk
  IN IF type # Undefined
     THEN Filter(byCategory, {id \in Range(byCategory) : Type(id) = type})
     ELSE byCategory

\* the array the sort leaves behind (the sort is in place and returns it)
sortedCandidates(bnk, prog, category, type, draws) ==
  LET c == candidates(bnk, category, type)
  IN IF category # Undefined
     THEN ArraySort(c, [a \in Range(c) |-> [b \in Range(c) |-> categoryOrder(prog, a, b)]], draws)
     ELSE ArraySort(c, [a \in Range(c) |-> [b \in Range(c) |-> smartOrder(prog, a, b)]], draws)

\* Mutant of buildQueue: smart review keeps the last 30, .slice(-30).
buildQueue_lastBatch(bnk, prog, category, type, draws) ==
  LET sorted == sortedCandidates(bnk, prog, category, type, draws)
  IN IF category # Undefined \/ Len(sorted) <= BatchSize
     THEN sorted
     ELSE Slice(sorted, Len(sorted) - BatchSize, Len(sorted))

\* Mutant of buildQueue: no slice.
buildQueue_noSlice(bnk, prog, category, type, draws) ==
  sortedCandidates(bnk, prog, category, type, draws)

\* .slice(0, 30) in smart review only
buildQueue(bnk, prog, category, type, draws) ==
  LET sorted == sortedCandidates(bnk, prog, category, type, draws)
  IN IF category # Undefined THEN sorted ELSE Slice(sorted, 0, BatchSize)

\* QUESTIONS after the call: with no filter applied candidates is the
\* QUESTIONS array itself, which the sort reorders
bankAfter(bnk, prog, category, type, draws) ==
  IF category = Undefined /\ type = Undefined
  THEN sortedCandidates(bnk, prog, category, type, draws)
  ELSE bnk

----------------------------------------------------------------------------
(* SessionController: src/App.tsx *)

NoRequest == [category |-> Undefined, type |-> "none"]

NoSession == [length |-> 0, submits |-> 0]

\* the dialogs: none, alert('没有找到符合条件的题目！'), alert('本组复习完成！'),
\* and the confirm of resetProgress answered with Cancel
Dialog == {"none", "noMatch", "complete", "declined"}

\* the key of a record written for currentQueue[currentIndex] === undefined
UndefinedId == 0

\* Mutant of restoreSession: a stored session is resumed at its first card.
restoreSession_fromTheTop(saved) ==
  IF saved # NoItem /\ Parses(saved)
  THEN [JSONparse(saved) EXCEPT !.index = 0]
  ELSE [mode |-> DASHBOARD, queue |-> << >>, index |-> 0]

\* the useState initialiser of sessionData
restoreSession(saved) ==
  IF saved # NoItem /\ Parses(saved)
  THEN JSONparse(saved)
  ELSE [mode |-> DASHBOARD, queue |-> << >>, index |-> 0]

\* currentQueue[currentIndex]
currentQId ==
  IF currentIndex + 1 \in 1..Len(currentQueue)
  THEN currentQueue[currentIndex + 1]
  ELSE UndefinedId

\* QUESTIONS.find(q => q.id === currentQueue[currentIndex]) in STUDY mode, as
\* a sequence: the question found, or nothing (null, undefined)
currentQuestion ==
  IF /\ mode = STUDY
     /\ currentIndex + 1 \in 1..Len(currentQueue)
     /\ currentQId \in Range(bank)
  THEN <<currentQId>>
  ELSE << >>

\* Mutant of DashboardShown: the dashboard is there whatever the mode.
DashboardShown_whateverMode == ~loading /\ ~savePending

\* the dashboard is rendered: its controls can be used
DashboardShown == ~loading /\ ~savePending /\ mode = DASHBOARD

\* Mutant of StudyShown: the flashcard is there whatever the mode.
StudyShown_whateverMode == ~loading /\ ~savePending

\* the study view is rendered: the flashcard and the back button can be used
StudyShown == ~loading /\ ~savePending /\ mode = STUDY
              /\ currentQuestion # << >>

\* The page is loaded with n questions and the two items in storage: the
\* state after the first render, before the effects of the mount have run.
Constructed(n, sp, ss) ==
  [bank           |-> QUESTIONS(n),
   progress       |-> EmptyProgress,
   loading        |-> TRUE,
   mode           |-> restoreSession(ss).mode,
   currentQueue   |-> restoreSession(ss).queue,
   currentIndex   |-> restoreSession(ss).index,
   storedProgress |-> sp,
   storedSession  |-> ss,
   savePending    |-> FALSE]

Init ==
  \E n \in 0..MaxBank, sp \in {NoItem, Malformed}, ss \in {NoItem, Malformed} :
    LET st == Constructed(n, sp, ss)
    IN /\ bank = st.bank
       /\ progress = st.progress
       /\ loading = st.loading
       /\ mode = st.mode
       /\ currentQueue = st.currentQueue
       /\ currentIndex = st.currentIndex
       /\ storedProgress = st.storedProgress
       /\ storedSession = st.storedSession
       /\ savePending = st.savePending
       /\ dialog = "none"
       /\ request = NoRequest
       /\ answered = [id \in 1..n |-> 0]
       /\ cleared = {}
       /\ session = NoSession
       /\ studied = << >>

\* the page is loaded anew
Load(st) ==
  /\ bank' = st.bank
  /\ progress' = st.progress
  /\ loading' = st.loading
  /\ mode' = st.mode
  /\ currentQueue' = st.currentQueue
  /\ currentIndex' = st.currentIndex
  /\ storedProgress' = st.storedProgress
  /\ storedSession' = st.storedSession
  /\ savePending' = st.savePending

\* Mutant of MountEffects: JSON.parse is not in a try block, and the load
\* effect is left before setLoading(false) when the stored map is malformed.
MountEffects_noCatch ==
  /\ loading
  /\ storedProgress # Malformed
  /\ progress' = loadProgress(storedProgress, progress)
  /\ loading' = FALSE
  /\ storedSession' = JSONstringify([mode |-> mode, queue |-> currentQueue, index |-> currentIndex])
  /\ UNCHANGED <<bank, mode, currentQueue, currentIndex, storedProgress, savePending, dialog, history>>

\* The effects of the mount: the load effect of useProgress, then the
\* auto-save effect of App.
MountEffects ==
  /\ loading
  /\ progress' = loadProgress(storedProgress, progress)
  /\ loading' = FALSE
  /\ storedSession' = JSONstringify([mode |-> mode, queue |-> currentQueue, index |-> currentIndex])
  /\ UNCHANGED <<bank, mode, currentQueue, currentIndex, storedProgress, savePending, dialog, history>>

\* The auto-save effect after a render that changed mode, queue or index.
AutoSave ==
  /\ savePending
  /\ storedSession' = JSONstringify([mode |-> mode, queue |-> currentQueue, index |-> currentIndex])
  /\ savePending' = FALSE
  /\ session' = IF session.submits = session.length THEN NoSession ELSE session
  /\ studied' = IF session.submits = session.length THEN << >> ELSE studied
  /\ UNCHANGED <<bank, progress, loading, mode, currentQueue, currentIndex, storedProgress,
                 dialog, request, answered, cleared>>

\* Mutant of StartSession: an empty queue starts a session too.
StartSession_startsEmpty(category, type, draws) ==
  /\ DashboardShown
  /\ LET queue == buildQueue(bank, progress, category, type, draws)
     IN /\ bank' = bankAfter(bank, progress, category, type, draws)
        /\ currentQueue' = queue
        /\ currentIndex' = 0
        /\ mode' = STUDY
        /\ savePending' = TRUE
        /\ dialog' = "none"
        /\ request' = [category |-> category, type |-> type]
        /\ session' = [length |-> Len(queue), submits |-> 0]
        /\ studied' = << >>
  /\ UNCHANGED <<progress, loading, storedProgress, storedSession, answered, cleared>>

\* startSession(category, type) with the random draws of its sort
StartSession(category, type, draws) ==
  /\ DashboardShown
  /\ LET queue == buildQueue(bank, progress, category, type, draws)
     IN /\ bank' = bankAfter(bank, progress, category, type, draws)
        /\ IF Len(queue) = 0
           THEN /\ dialog' = "noMatch"
                /\ UNCHANGED <<mode, currentQueue, currentIndex, savePending, request, session, studied>>
           ELSE /\ currentQueue' = queue
                /\ currentIndex' = 0
                /\ mode' = STUDY
                /\ savePending' = TRUE
                /\ dialog' = "none"
                /\ request' = [category |-> category, type |-> type]
                /\ session' = [length |-> Len(queue), submits |-> 0]
                /\ studied' = << >>
  /\ UNCHANGED <<progress, loading, storedProgress, storedSession, answered, cleared>>

\* onStartReview = () => startSession()
StartReview ==
  \E draws \in Draws(Len(candidates(bank, Undefined, Undefined))) :
    StartSession(Undefined, Undefined, draws)

\* onStartCategory(selectedCategory) and onStartCategory(selectedCategory, type)
StartCategory ==
  \E category \in Categories, type \in QuestionType \cup {Undefined} :
    \E draws \in Draws(Len(candidates(bank, category, type))) :
      StartSession(category, type, draws)

\* Mutant of exitSession: the index is left where it was.
exitSession_keepsIndex ==
  /\ mode' = DASHBOARD
  /\ currentQueue' = << >>
  /\ currentIndex' = currentIndex
  /\ storedSession' = NoItem
  /\ savePending' = TRUE
  /\ request' = NoRequest

\* exitSession(): the three setters and the removal of the stored session
exitSession ==
  /\ mode' = DASHBOARD
  /\ currentQueue' = << >>
  /\ currentIndex' = 0
  /\ storedSession' = NoItem
  /\ savePending' = TRUE
  /\ request' = NoRequest

\* the back button of the study view
ExitSession ==
  /\ StudyShown
  /\ exitSession
  /\ dialog' = "none"
  /\ session' = NoSession
  /\ studied' = << >>
  /\ UNCHANGED <<bank, progress, loading, storedProgress, answered, cleared>>

\* Mutant of HandleCardResult: the new progress map is not written to storage.
HandleCardResult_progressUnsaved(difficulty) ==
  /\ StudyShown
  /\ currentEntry(progress, currentQId).reviewCount < MaxReview
  /\ progress' = updateProgress(progress, currentQId, difficulty).progress
  /\ storedProgress' = storedProgress
  /\ answered' = [answered EXCEPT ![currentQId] = @ + 1]
  /\ cleared' = {}
  /\ session' = IF session = NoSession THEN NoSession
                ELSE [session EXCEPT !.submits = @ + 1]
  /\ studied' = IF session = NoSession THEN << >>
                ELSE Append(studied, [id |-> currentQId, difficulty |-> difficulty])
  /\ IF currentIndex < Len(currentQueue) - 1
     THEN /\ currentIndex' = currentIndex + 1
          /\ savePending' = TRUE
          /\ dialog' = "none"
          /\ UNCHANGED <<mode, currentQueue, storedSession, request>>
     ELSE /\ dialog' = "complete"
          /\ exitSession
  /\ UNCHANGED <<bank, loading>>

\* Mutant of HandleCardResult: the session ends one card early.
HandleCardResult_endsEarly(difficulty) ==
  /\ StudyShown
  /\ currentEntry(progress, currentQId).reviewCount < MaxReview
  /\ progress' = updateProgress(progress, currentQId, difficulty).progress
  /\ storedProgress' = updateProgress(progress, currentQId, difficulty).stored
  /\ answered' = [answered EXCEPT ![currentQId] = @ + 1]
  /\ cleared' = {}
  /\ session' = IF session = NoSession THEN NoSession
                ELSE [session EXCEPT !.submits = @ + 1]
  /\ studied' = IF session = NoSession THEN << >>
                ELSE Append(studied, [id |-> currentQId, difficulty |-> difficulty])
  /\ IF currentIndex < Len(currentQueue) - 2
     THEN /\ currentIndex' = currentIndex + 1
          /\ savePending' = TRUE
          /\ dialog' = "none"
          /\ UNCHANGED <<mode, currentQueue, storedSession, request>>
     ELSE /\ dialog' = "complete"
          /\ exitSession
  /\ UNCHANGED <<bank, loading>>

\* handleCardResult(difficulty), from the two buttons of the flashcard
HandleCardResult(difficulty) ==
  /\ StudyShown
  /\ currentEntry(progress, currentQId).reviewCount < MaxReview
  /\ progress' = updateProgress(progress, currentQId, difficulty).progress
  /\ storedProgress' = updateProgress(progress, currentQId, difficulty).stored
  /\ answered' = [answered EXCEPT ![currentQId] = @ + 1]
  /\ cleared' = {}
  /\ session' = IF session = NoSession THEN NoSession
                ELSE [session EXCEPT !.submits = @ + 1]
  /\ studied' = IF session = NoSession THEN << >>
                ELSE Append(studied, [id |-> currentQId, difficulty |-> difficulty])
  /\ IF currentIndex < Len(currentQueue) - 1
     THEN /\ currentIndex' = currentIndex + 1
          /\ savePending' = TRUE
          /\ dialog' = "none"
          /\ UNCHANGED <<mode, currentQueue, storedSession, request>>
     ELSE /\ dialog' = "complete"
          /\ exitSession
  /\ UNCHANGED <<bank, loading>>

SubmitAnswer == \E difficulty \in {"easy", "hard"} : HandleCardResult(difficulty)

\* window.location.reload(), or the page closed and opened again: the module
\* and the component state are built anew from what storage holds
Reload ==
  /\ Load(Constructed(Len(bank), storedProgress, storedSession))
  /\ dialog' = "none"
  /\ request' = IF restoreSession(storedSession).mode = STUDY THEN request ELSE NoRequest
  /\ session' = NoSession
  /\ studied' = << >>
  /\ UNCHANGED <<answered, cleared>>

\* Mutant of ResetProgress: the answer of confirm() is not looked at.
ResetProgress_unconfirmed(confirmed) ==
  /\ DashboardShown
  /\ Load(Constructed(Len(bank), NoItem, NoItem))
  /\ dialog' = IF confirmed THEN "none" ELSE "declined"
  /\ request' = NoRequest
  /\ answered' = [id \in DOMAIN answered |-> 0]
  /\ cleared' = DOMAIN progress
  /\ session' = NoSession
  /\ studied' = << >>

\* Mutant of ResetProgress: the reset can be asked for during a session, and
\* it empties the map and its stored copy without touching the session.
ResetProgress_keepsSession(confirmed) ==
  /\ ~loading /\ ~savePending
  /\ IF confirmed
     THEN /\ progress' = EmptyProgress
          /\ storedProgress' = NoItem
          /\ dialog' = "none"
          /\ request' = NoRequest
          /\ answered' = [id \in DOMAIN answered |-> 0]
          /\ cleared' = DOMAIN progress
          /\ session' = NoSession
          /\ studied' = << >>
          /\ UNCHANGED <<bank, loading, mode, currentQueue, currentIndex,
                         storedSession, savePending>>
     ELSE /\ dialog' = "declined"
          /\ UNCHANGED <<bank, progress, loading, mode, currentQueue, currentIndex,
                         storedProgress, storedSession, savePending, history>>

\* Mutant of ResetProgress: the stored progress map is not removed.
ResetProgress_keepsStorage(confirmed) ==
  /\ DashboardShown
  /\ IF confirmed
     THEN /\ Load(Constructed(Len(bank), storedProgress, NoItem))
          /\ dialog' = "none"
          /\ request' = NoRequest
          /\ answered' = [id \in DOMAIN answered |-> 0]
          /\ cleared' = DOMAIN progress
          /\ session' = NoSession
          /\ studied' = << >>
     ELSE /\ dialog' = "declined"
          /\ UNCHANGED <<bank, progress, loading, mode, currentQueue, currentIndex,
                         storedProgress, storedSession, savePending, history>>

\* resetProgress(): confirm() answered
ResetProgress(confirmed) ==
  /\ DashboardShown
  /\ IF confirmed
     THEN /\ Load(Constructed(Len(bank), NoItem, NoItem))
          /\ dialog' = "none"
          /\ request' = NoRequest
          /\ answered' = [id \in DOMAIN answered |-> 0]
          /\ cleared' = DOMAIN progress
          /\ session' = NoSession
          /\ studied' = << >>
     ELSE /\ dialog' = "declined"
          /\ UNCHANGED <<bank, progress, loading, mode, currentQueue, currentIndex,
                         storedProgress, storedSession, savePending, history>>

Reset == \E confirmed \in BOOLEAN : ResetProgress(confirmed)

Next ==
  \/ MountEffects
  \/ AutoSave
  \/ StartReview
  \/ StartCategory
  \/ ExitSession
  \/ SubmitAnswer
  \/ Reload
  \/ Reset

Spec == Init /\ [][Next]_vars

----------------------------------------------------------------------------
(* The queue builder alone: the dashboard is shown and one session is      *)
(* started, on the banks of up to MaxBank + 1 questions in every order     *)
(* with every progress map of the records below, and on the banks of about *)
(* BatchSize questions, in loading order or reversed, where the first and  *)
(* the last question may have a record.                                    *)

\* The records updateProgress writes, and a learning record of low score
\* (getWeight has a branch for it).
BuildRecord ==
  {[status |-> "learning", difficultyScore |-> 5, reviewCount |-> 1],
   [status |-> "learning", difficultyScore |-> 0, reviewCount |-> 1],
   [status |-> "mastered", difficultyScore |-> 0, reviewCount |-> 1]}

ProgressMaps(ids, records) == UNION {[known -> records] : known \in SUBSET ids}

Reverse(arr) == [i \in 1..Len(arr) |-> arr[Len(arr) + 1 - i]]

BuildInputs ==
  {[bank |-> b, progress |-> p] :
     b \in UNION {Permutations(1..n) : n \in 0..(MaxBank + 1)},
     p \in ProgressMaps(1..(MaxBank + 1), BuildRecord)}
  \cup
  {[bank |-> b, progress |-> p] :
     b \in UNION {{QUESTIONS(n), Reverse(QUESTIONS(n))} : n \in {BatchSize, BatchSize + MaxOver}},
     p \in ProgressMaps({1, BatchSize + MaxOver}, BuildRecord)}

\* the dashboard, shown with the bank and the progress map given
Idle(b, p) ==
  /\ bank = b
  /\ progress = p
  /\ loading = FALSE
  /\ mode = DASHBOARD
  /\ currentQueue = << >>
  /\ currentIndex = 0
  /\ storedProgress = JSONstringify(p)
  /\ storedSession = JSONstringify([mode |-> DASHBOARD, queue |-> << >>, index |-> 0])
  /\ savePending = FALSE
  /\ dialog = "none"
  /\ request = NoRequest
  /\ answered = [id \in Range(b) |-> 0]
  /\ cleared = {}
  /\ session = NoSession
  /\ studied = << >>

InitBuild ==
  \E in \in BuildInputs :
    /\ DOMAIN in.progress \subseteq Range(in.bank)
    /\ Idle(in.bank, in.progress)

NextBuild == StartReview \/ StartCategory

SpecBuild == InitBuild /\ [][NextBuild]_vars

----------------------------------------------------------------------------
(* The builds of one input compared: the banks of up to MaxBank + 1        *)
(* questions in loading order with every progress map of the records of    *)
(* BuildRecord; one session is started, and the queue built is compared    *)
(* with every queue the same call can build.                               *)

InitRebuild ==
  \E n \in 0..(MaxBank + 1) :
    \E p \in ProgressMaps(1..n, BuildRecord) : Idle(QUESTIONS(n), p)

SpecRebuild == InitRebuild /\ [][NextBuild]_vars

----------------------------------------------------------------------------
(* getWeight alone: a bank of one question whose record is any record of   *)
(* the UserProgress type (difficultyScore: 0 to 5), or absent.             *)

AnyRecord ==
  [status : Status, difficultyScore : 0..5, reviewCount : 0..MaxReview]

InitWeight ==
  \E p \in ProgressMaps({1}, AnyRecord) : Idle(QUESTIONS(1), p)

SpecWeight == InitWeight /\ [][NextBuild]_vars

----------------------------------------------------------------------------
(* The page opened on what an earlier run has left in storage: a session   *)
(* in STUDY mode with any duplicate-free queue of the ids up to MaxStored  *)
(* at any index, and the records of the answers given before that index.   *)
(* The bank of this run has up to MaxStored questions, so that it may lack *)
(* ids of the stored queue. The session is resumed, answered, left, and    *)
(* the page is loaded again; no session is started.                        *)

StoredQueues ==
  {q \in UNION {[1..k -> 1..MaxStored] : k \in 1..MaxStored} :
     \A i, j \in DOMAIN q : q[i] = q[j] => i = j}

\* the records updateProgress writes at the first answer to a question
FirstAnswerRecord ==
  {updatedEntry(currentEntry(EmptyProgress, UndefinedId), difficulty) :
     difficulty \in {"easy", "hard"}}

StartupInputs ==
  UNION {UNION {{[n |-> n, queue |-> q, index |-> i, progress |-> p] :
                   n \in 0..MaxStored,
                   p \in [{q[k] : k \in 1..i} -> FirstAnswerRecord]} :
                i \in 0..(Len(q) - 1)} :
         q \in StoredQueues}

InitStartup ==
  \E in \in StartupInputs :
    LET sp == IF in.index = 0 THEN NoItem ELSE JSONstringify(in.progress)
        ss == JSONstringify([mode |-> STUDY, queue |-> in.queue, index |-> in.index])
        st == Constructed(in.n, sp, ss)
    IN /\ bank = st.bank
       /\ progress = st.progress
       /\ loading = st.loading
       /\ mode = st.mode
       /\ currentQueue = st.currentQueue
       /\ currentIndex = st.currentIndex
       /\ storedProgress = st.storedProgress
       /\ storedSession = st.storedSession
       /\ savePending = st.savePending
       /\ dialog = "none"
       /\ request = NoRequest
       /\ answered = [id \in 1..in.n |-> 0]
       /\ cleared = {}
       /\ session = NoSession
       /\ studied = << >>

NextStartup ==
  \/ MountEffects
  \/ AutoSave
  \/ SubmitAnswer
  \/ ExitSession
  \/ Reload

SpecStartup == InitStartup /\ [][NextStartup]_vars

----------------------------------------------------------------------------
(* One category session on questions that are all new: the dashboard is    *)
(* shown on a bank of up to MaxScenario questions with an empty progress   *)
(* map, a category session is started while the map is empty, and its      *)
(* cards are answered until the queue is completed or the session is left. *)

InitScenario == \E n \in 0..MaxScenario : Idle(QUESTIONS(n), EmptyProgress)

\* onStartCategory while no question has a record
FreshStart == progress = EmptyProgress /\ StartCategory

NextScenario ==
  \/ FreshStart
  \/ AutoSave
  \/ SubmitAnswer
  \/ ExitSession

SpecScenario == InitScenario /\ [][NextScenario]_vars

----------------------------------------------------------------------------
(* Properties of the progress store, checked under Spec *)

\* an answer has been recorded since the last reset
AnswerRecorded == \E id \in DOMAIN answered : answered[id] > 0

\* the record of a 'hard' answer, of an 'easy' answer
OutcomeRecord(r, difficulty) ==
  IF difficulty = "hard"
  THEN r.status = "learning" /\ r.difficultyScore = 5
  ELSE r.status = "mastered" /\ r.difficultyScore = 0

\* C1: whatever the record of the current question was (absent, learning or
\* mastered, any reviewCount), handleCardResult('hard') leaves it learning
\* with score 5 and handleCardResult('easy') leaves it mastered with score 0.
C1_RecordAnswerMemoryless ==
  [][\A difficulty \in {"easy", "hard"} :
       HandleCardResult(difficulty) =>
         /\ currentQId \in DOMAIN progress'
         /\ OutcomeRecord(progress'[currentQId], difficulty)]_vars

\* a second answer to a question has made its record learning, and a second
\* answer to another one has made its record mastered
C1_Witness ==
  \E a, b \in DOMAIN progress :
    /\ answered[a] = 2 /\ progress[a].status = "learning"
    /\ answered[b] = 2 /\ progress[b].status = "mastered"

\* C2: every recorded answer raises the reviewCount of its question by
\* exactly 1, from 0 when there was no record, and once the map is loaded the
\* reviewCount of each question is the number of answers recorded for it
\* since the last reset.
C2_ReviewCountCountsAnswers ==
  /\ [][\A difficulty \in {"easy", "hard"} :
          HandleCardResult(difficulty) =>
            progress'[currentQId].reviewCount =
              (IF currentQId \in DOMAIN progress THEN progress[currentQId].reviewCount ELSE 0) + 1]_vars
  /\ [](~loading =>
          \A id \in DOMAIN answered :
            (IF id \in DOMAIN progress THEN progress[id].reviewCount ELSE 0) = answered[id])

\* one question answered twice and another one once, after a reload
C2_Witness ==
  /\ ~loading
  /\ \E a, b \in DOMAIN progress :
       /\ progress[a].reviewCount = 2 /\ answered[a] = 2
       /\ progress[b].reviewCount = 1 /\ answered[b] = 1

\* a record as the data model allows it in the map
StoredRecordOk(r) ==
  /\ \/ r.status = "learning" /\ r.difficultyScore = 5
     \/ r.status = "mastered" /\ r.difficultyScore = 0
  /\ r.reviewCount >= 1

\* C3: every record of the progress map, in memory and in storage, is
\* learning with score 5 or mastered with score 0, and has a reviewCount of
\* at least 1; none has status new.
C3_StoredRecordsCanonical ==
  /\ \A id \in DOMAIN progress : StoredRecordOk(progress[id])
  /\ Parses(storedProgress) =>
       \A id \in DOMAIN JSONparse(storedProgress) : StoredRecordOk(JSONparse(storedProgress)[id])

\* a learning record of a question answered twice beside a mastered record
C3_Witness ==
  \E a, b \in DOMAIN progress :
    /\ progress[a].status = "learning" /\ progress[a].reviewCount = 2
    /\ progress[b].status = "mastered"

\* C4: after a confirmed reset, and until an answer is recorded again, no
\* question whose record the reset removed has a record, in memory or in
\* storage; this includes the states after the reload has read storage.
C4_ResetClearsEveryRecord ==
  \A q \in cleared :
    /\ q \notin DOMAIN progress
    /\ storedProgress = NoItem
    /\ q \notin DOMAIN loadProgress(storedProgress, EmptyProgress)

\* a reset removed two records and the page has loaded again
C4_Witness == Cardinality(cleared) >= 2 /\ ~loading

\* C5: once an answer has been recorded, whenever the map is loaded the
\* stored item is the JSON text of the map in memory, so that a reload gives
\* back that map.
C5_StorageEqualsMemory ==
  (AnswerRecorded /\ ~loading) =>
    /\ storedProgress = JSONstringify(progress)
    /\ loadProgress(storedProgress, EmptyProgress) = progress

\* two questions have records, one of them answered twice
C5_Witness ==
  /\ AnswerRecorded /\ ~loading
  /\ \E a, b \in DOMAIN progress : a # b /\ answered[a] = 2

----------------------------------------------------------------------------
(* Properties of the queue builder, checked under SpecBuild (C10 under     *)
(* SpecWeight): a session has just been started, the progress map is the   *)
(* one the queue was built from.                                           *)

BuiltByCategory == mode = STUDY /\ request.category # Undefined

BuiltBySmartReview == mode = STUDY /\ request.category = Undefined

\* the bank questions a category request asks for
Requested ==
  {id \in Range(bank) :
     /\ Category(id) = request.category
     /\ request.type # Undefined => Type(id) = request.type}

NoDuplicates(arr) == Cardinality(Range(arr)) = Len(arr)

Min(a, b) == IF a < b THEN a ELSE b

\* C6: a queue built in category mode holds exactly the bank questions of
\* the requested category (and type, when one is given), each once: nothing
\* else, nothing left out, nothing cut off.
C6_CategoryQueueIsTheFilter ==
  BuiltByCategory =>
    /\ Range(currentQueue) = Requested
    /\ Len(currentQueue) = Cardinality(Requested)

\* a category of more than BatchSize questions: nothing is cut off
C6_Witness == BuiltByCategory /\ Len(currentQueue) > BatchSize

\* C7: in a queue built in category mode no mastered question comes before a
\* question that is new or learning.
C7_CategoryMasteredLast ==
  BuiltByCategory =>
    \A i, j \in 1..Len(currentQueue) :
      i < j => ~(/\ statusOf(progress, currentQueue[i]) = "mastered"
                 /\ statusOf(progress, currentQueue[j]) # "mastered")

\* a mastered, a learning and a new question in one category queue
C7_Witness ==
  /\ BuiltByCategory
  /\ \E i, j, k \in 1..Len(currentQueue) :
       /\ statusOf(progress, currentQueue[i]) = "mastered"
       /\ statusOf(progress, currentQueue[j]) = "learning"
       /\ statusOf(progress, currentQueue[k]) = "new"

\* C8: a queue built in smart review has min(30, size of the bank) questions
\* and holds no question twice.
C8_SmartQueueLength ==
  BuiltBySmartReview =>
    /\ Len(currentQueue) = Min(BatchSize, Len(bank))
    /\ NoDuplicates(currentQueue)

\* a bank of more than BatchSize questions, cut to BatchSize
C8_Witness ==
  BuiltBySmartReview /\ Len(bank) > BatchSize /\ Len(currentQueue) = BatchSize

\* a record exists with a score above 2
HasHardRecord(id) == id \in DOMAIN progress /\ progress[id].difficultyScore > 2

WeightRule(prog, id) ==
  IF id \in DOMAIN prog /\ prog[id].difficultyScore > 2 THEN 4
  ELSE IF id \notin DOMAIN prog THEN 3
  ELSE IF prog[id].status = "learning" THEN 2
  ELSE 0

\* C10: for every record of the UserProgress type, and for no record,
\* getWeight gives the weight of the rule: 4 for a score above 2, else 3 for
\* no record, else 2 for learning, else 0.
C10_GetWeightIsTheRule ==
  \A id \in Range(bank) : getWeight(progress, id) = WeightRule(progress, id)

\* a session started where the question is learning with score 2: weight 2
C10_Witness ==
  /\ mode = STUDY
  /\ \E id \in DOMAIN progress :
       /\ progress[id].status = "learning"
       /\ progress[id].difficultyScore = 2
       /\ getWeight(progress, id) = 2

----------------------------------------------------------------------------
(* Properties of the session controller, checked under Spec *)

\* the two answers of a flashcard
Difficulty == {"easy", "hard"}

\* C11: a session startSession has built with N questions starts in STUDY at
\* index 0; with no exit, reload or reset in between it is in STUDY, at the
\* index of the number of answers given, after each of the first N - 1
\* calls of handleCardResult, and the N-th call, no call before it, brings
\* it back to DASHBOARD.
C11_ExactlyNSubmitsEndTheSession ==
  /\ [](session # NoSession =>
          IF session.submits < session.length
          THEN /\ mode = STUDY
               /\ Len(currentQueue) = session.length
               /\ currentIndex = session.submits
          ELSE /\ session.submits = session.length
               /\ mode = DASHBOARD)
  /\ [][(mode = DASHBOARD /\ mode' = STUDY) =>
          session' = [length |-> Len(currentQueue'), submits |-> 0]]_vars
  /\ [][\A difficulty \in Difficulty :
          (HandleCardResult(difficulty) /\ session # NoSession) =>
            /\ session' = [session EXCEPT !.submits = @ + 1]
            /\ mode' = IF session'.submits < session.length THEN STUDY ELSE DASHBOARD]_vars

\* the second answer has ended a session of two questions
C11_Witness ==
  /\ session = [length |-> 2, submits |-> 2]
  /\ mode = DASHBOARD
  /\ dialog = "complete"
StartArguments ==
  {[category |-> category, type |-> type] :
     category \in Categories \cup {Undefined}, type \in QuestionType \cup {Undefined}}

\* C13: when no question of the bank matches the request (the bank is empty,
\* or none has the category and the type asked for), startSession shows the
\* no-match alert and leaves the mode DASHBOARD, the queue, the index, the
\* stored session, the progress map and its stored copy as they were.
C13_NoMatchStaysIdle ==
  [][\A a \in StartArguments :
       Len(candidates(bank, a.category, a.type)) = 0 =>
         \A draws \in Draws(0) :
           StartSession(a.category, a.type, draws) =>
             /\ dialog' = "noMatch"
             /\ mode' = DASHBOARD
             /\ UNCHANGED <<mode, currentQueue, currentIndex, storedSession,
                            progress, storedProgress, savePending>>]_vars

\* the alert was shown on a bank that has questions and records, none of
\* them matching
C13_Witness ==
  /\ dialog = "noMatch"
  /\ mode = DASHBOARD /\ currentQueue = << >> /\ currentIndex = 0
  /\ bank # << >>
  /\ progress # EmptyProgress
----------------------------------------------------------------------------
(* Properties of the restart, checked under SpecStartup *)

\* the session in memory
Session == [mode |-> mode, queue |-> currentQueue, index |-> currentIndex]

\* C14: a reload of the page, when the session has been saved, gives back
\* the session as it was (the mode, the queue in its order, the index) and
\* its current question; the queue is the stored one, whatever the progress
\* map has become. While the page loads, the session in memory is the
\* stored one.
C14_RestartRestoresTheSession ==
  /\ [][(Reload /\ ~savePending) =>
          /\ Session' = Session
          /\ currentQuestion' = currentQuestion]_vars
  /\ [](loading /\ Parses(storedSession) => Session = JSONparse(storedSession))

\* the stored session [1, 2, 3] has been resumed, its first question
\* answered 'easy', and the page loaded again: the current question is 2,
\* though a queue built now would not start with the mastered question 1
C14_Witness ==
  /\ loading
  /\ Session = [mode |-> STUDY, queue |-> <<1, 2, 3>>, index |-> 1]
  /\ currentQuestion = <<2>>
  /\ answered[1] = 1
  /\ JSONparse(storedProgress)[1].status = "mastered"
----------------------------------------------------------------------------
(* Properties of the end of a session, checked under Spec *)

\* C15: once exitSession (called by the back button, or by the answer that
\* completes the queue) and the auto-save effect that follows it have run,
\* the session in memory is DASHBOARD with an empty queue and index 0, and
\* no session item is in storage.
C15_ExitClearsStoredSession ==
  [][(AutoSave /\ mode = DASHBOARD) =>
       /\ Session' = [mode |-> DASHBOARD, queue |-> << >>, index |-> 0]
       /\ storedSession' = NoItem]_vars
\* C16: in every state, in STUDY mode the queue is not empty, holds no
\* question twice and the index is one of its positions; in DASHBOARD mode
\* the queue is empty and the index is 0; and no step from STUDY to STUDY
\* changes the queue.
C16_SessionWellFormed ==
  /\ [](IF mode = STUDY
        THEN /\ Len(currentQueue) > 0
             /\ NoDuplicates(currentQueue)
             /\ currentIndex \in 0..(Len(currentQueue) - 1)
        ELSE /\ mode = DASHBOARD
             /\ currentQueue = << >>
             /\ currentIndex = 0)
  /\ [][(mode = STUDY /\ mode' = STUDY) => currentQueue' = currentQueue]_vars

\* the second card of a queue of two, resumed after a reload
C16_Witness ==
  /\ StudyShown
  /\ Len(currentQueue) = 2
  /\ currentIndex = 1
  /\ session = NoSession
----------------------------------------------------------------------------
(* Properties of the startup on stored items, checked under SpecStartup    *)
(* (C17) and under Spec (C18)                                              *)

\* the stored session is in STUDY mode and its current id is no question of
\* the bank
StoredSessionStale ==
  /\ Parses(storedSession)
  /\ JSONparse(storedSession).mode = STUDY
  /\ LET saved == JSONparse(storedSession)
     IN saved.index + 1 \in 1..Len(saved.queue) =>
          saved.queue[saved.index + 1] \notin Range(bank)

\* C17: once the page has loaded, the mode is never STUDY with a current id
\* that is no question of the bank, and once the session has been saved the
\* stored session is not such a session either: a restored session whose
\* current id does not resolve has fallen back to DASHBOARD and has been
\* cleared from storage.
C17_StaleSessionFallsBackToIdle ==
  ~loading =>
    /\ ~(mode = STUDY /\ currentQuestion = << >>)
    /\ ~savePending => ~StoredSessionStale
\* C18: a page constructed on a stored session that is absent or does not
\* parse is in DASHBOARD mode with an empty queue and index 0; the effects
\* of the mount can always run, and when the stored progress map is absent
\* or does not parse they leave the map empty and end the loading.
C18_MalformedBlobsStartEmpty ==
  /\ [](loading /\ ~Parses(storedSession) =>
          Session = [mode |-> DASHBOARD, queue |-> << >>, index |-> 0])
  /\ [](loading => ENABLED MountEffects)
  /\ [][(MountEffects /\ ~Parses(storedProgress)) =>
          /\ progress' = EmptyProgress
          /\ ~loading'
          /\ Session' = Session]_vars

\* the page has loaded on a malformed progress map: the dashboard is shown,
\* the map is empty
C18_Witness ==
  /\ storedProgress = Malformed
  /\ DashboardShown
  /\ progress = EmptyProgress
----------------------------------------------------------------------------
(* Properties of the reset, checked under Spec *)

\* C19: resetProgress whose confirm() is declined changes nothing: the
\* progress map and its stored copy, the session in memory and the stored
\* session are as before, and the page is not reloaded (the bank and the
\* loading flag are as before, no effect is scheduled).
C19_DeclinedResetIsNoOp ==
  [][ResetProgress(FALSE) =>
       /\ dialog' = "declined"
       /\ UNCHANGED <<progress, storedProgress, Session, storedSession,
                      bank, loading, savePending>>]_vars

\* a reset has been declined where records and a stored map exist
C19_Witness ==
  /\ dialog = "declined"
  /\ progress # EmptyProgress
  /\ storedProgress = JSONstringify(progress)
  /\ Parses(storedSession)
\* C20: after a confirmed reset that removed records, and until a session
\* is started again, in every state (before and after the effects of the
\* reload) the map is empty and there is no session in STUDY mode, neither
\* in memory nor in storage: the queue in memory is empty, and the stored
\* session, if there is one, restores to DASHBOARD.
C20_ResetInvalidatesSession ==
  (cleared # {} /\ request = NoRequest) =>
    /\ progress = EmptyProgress
    /\ Session = [mode |-> DASHBOARD, queue |-> << >>, index |-> 0]
    /\ restoreSession(storedSession).mode = DASHBOARD
    /\ restoreSession(storedSession).queue = << >>

\* the page has loaded again after a reset that removed a record, where a
\* session had been studied before
C20_Witness ==
  /\ cleared # {}
  /\ request = NoRequest
  /\ DashboardShown
  /\ storedProgress = NoItem
  /\ Parses(storedSession)
----------------------------------------------------------------------------
(* Properties of the bank, checked under Spec *)

\* C21: in every state the QUESTIONS array holds the questions in the order
\* in which the module was loaded.
C21_BankNeverMutated == bank = QUESTIONS(Len(bank))
----------------------------------------------------------------------------
(* Properties of one session, checked under SpecScenario (C22), and of a   *)
(* build, checked under SpecRebuild (C23)                                  *)

\* C22: in a category session started on an empty progress map, after each
\* answer and after the last one, the questions with a record are exactly
\* the questions answered, which are the first questions of the queue in
\* its order; each record has reviewCount 1 and is learning with score 5
\* where the answer was 'hard', mastered with score 0 where it was 'easy';
\* the stored map is the same map.
C22_SessionRecordsItsAnswers ==
  /\ [](session # NoSession =>
          /\ Len(studied) = session.submits
          /\ DOMAIN progress = {studied[i].id : i \in DOMAIN studied}
          /\ Cardinality(DOMAIN progress) = session.submits
          /\ \A i \in DOMAIN studied :
               /\ progress[studied[i].id].reviewCount = 1
               /\ OutcomeRecord(progress[studied[i].id], studied[i].difficulty)
          /\ mode = STUDY => \A i \in DOMAIN studied : studied[i].id = currentQueue[i]
          /\ session.submits > 0 => storedProgress = JSONstringify(progress))
  /\ [][\A difficulty \in Difficulty :
          (HandleCardResult(difficulty) /\ session # NoSession) =>
            studied' = Append(studied, [id |-> currentQId, difficulty |-> difficulty])]_vars

\* the bank of five questions, three of them of category A: the session on
\* A answered hard, easy, easy is completed with 1 learning and 2 mastered
C22_Witness ==
  /\ Len(bank) = 5
  /\ session = [length |-> 3, submits |-> 3]
  /\ [i \in DOMAIN studied |-> studied[i].difficulty] = <<"hard", "easy", "easy">>
  /\ \A i \in DOMAIN studied : Category(studied[i].id) = "A"
  /\ Cardinality({id \in DOMAIN progress : progress[id].status = "learning"}) = 1
  /\ Cardinality({id \in DOMAIN progress : progress[id].status = "mastered"}) = 2
  /\ mode = DASHBOARD
\* what the order of a build goes by, along a queue: the weights in smart
\* review, the mastered flags in category mode
OrderKeys(queue) ==
  [i \in DOMAIN queue |->
     IF request.category = Undefined
     THEN getWeight(progress, queue[i])
     ELSE score(statusOf(progress, queue[i]))]

\* the queues startSession can build with the arguments of the last call,
\* over the random draws
Rebuilds ==
  {buildQueue(bank, progress, request.category, request.type, draws) :
     draws \in Draws(Len(candidates(bank, request.category, request.type)))}

\* C23: every queue that startSession can build from the bank, the progress
\* map and the arguments the current queue was built from has, position by
\* position, the weights (smart review) or the mastered flags (category
\* mode) of the current queue, whatever the random draws.
C23_OrderKeysDeterministic ==
  mode = STUDY => \A queue \in Rebuilds : OrderKeys(queue) = OrderKeys(currentQueue)

\* a smart-review queue with two different weights along it, which another
\* draw would have built with other questions at some positions
C23_Witness ==
  /\ BuiltBySmartReview
  /\ \E i, j \in DOMAIN currentQueue : OrderKeys(currentQueue)[i] # OrderKeys(currentQueue)[j]
  /\ \E queue \in Rebuilds : queue # currentQueue
----------------------------------------------------------------------------
(* Properties of an answer and of what is stored, checked under Spec *)

\* C24: handleCardResult, called in STUDY mode, changes the progress record
\* of the question at the index and of no other: that question has a
\* record afterwards, with one review more, every other record is as it
\* was and none is removed; when another card follows (index + 1 < length)
\* the queue is unchanged, the index grows by exactly 1 and the mode stays
\* STUDY.
C24_SubmitChangesOneRecord ==
  [][\A difficulty \in Difficulty :
       HandleCardResult(difficulty) =>
         /\ mode = STUDY
         /\ currentQId = currentQueue[currentIndex + 1]
         /\ DOMAIN progress' = DOMAIN progress \cup {currentQId}
         /\ \A id \in DOMAIN progress \ {currentQId} : progress'[id] = progress[id]
         /\ progress'[currentQId].reviewCount = currentEntry(progress, currentQId).reviewCount + 1
         /\ OutcomeRecord(progress'[currentQId], difficulty)
         /\ currentIndex + 1 < Len(currentQueue) =>
              /\ currentQueue' = currentQueue
              /\ currentIndex' = currentIndex + 1
              /\ mode' = STUDY]_vars

\* C24 as it is worded: the queue is unchanged by every answer, the last
\* one of a queue included.
C24_QueueUnchangedByEveryAnswer ==
  [][\A difficulty \in Difficulty :
       HandleCardResult(difficulty) =>
         /\ DOMAIN progress' = DOMAIN progress \cup {currentQId}
         /\ \A id \in DOMAIN progress \ {currentQId} : progress'[id] = progress[id]
         /\ currentQueue' = currentQueue
         /\ currentIndex + 1 < Len(currentQueue) =>
              /\ currentIndex' = currentIndex + 1
              /\ mode' = STUDY]_vars

\* the first card of a queue of two has been answered 'hard' where the
\* other question had a mastered record, which is kept
C24_Witness ==
  /\ mode = STUDY
  /\ session = [length |-> 2, submits |-> 1]
  /\ studied[1].difficulty = "hard"
  /\ currentIndex = 1
  /\ currentQId \in DOMAIN progress
  /\ progress[currentQId].status = "mastered"
  /\ progress[studied[1].id].reviewCount = 2
\* C25: once the page has loaded, so that a user operation can be accepted,
\* storage holds a malformed value under neither key: a malformed item
\* found at startup has been removed or replaced by a well-formed one.
C25_CorruptBlobDiscarded ==
  ~loading => (storedProgress # Malformed /\ storedSession # Malformed)
\* the weights of the bank questions on a progress map
Weights(prog) == [id \in Range(bank) |-> getWeight(prog, id)]

\* C26: on the progress map in memory and on the stored one, in every state,
\* getWeight gives no question the weight 2: the weights are 4 for the
\* questions with status learning (all of score 5) and for no other, 3
\* for the questions without a record and 0 for the mastered ones.
C26_WeightTwoNeverAssigned ==
  \A prog \in {progress, loadProgress(storedProgress, EmptyProgress)} :
    \A id \in Range(bank) :
      /\ Weights(prog)[id] \in {4, 3, 0}
      /\ Weights(prog)[id] = 4 <=> statusOf(prog, id) = "learning"
      /\ Weights(prog)[id] = 3 <=> id \notin DOMAIN prog
      /\ statusOf(prog, id) = "learning" => prog[id].difficultyScore = 5

\* a question answered 'easy' then 'hard' is weighted 4 beside a mastered
\* question weighted 0
C26_Witness ==
  \E a, b \in DOMAIN progress :
    /\ progress[a].status = "learning" /\ progress[a].reviewCount = 2
    /\ Weights(progress)[a] = 4
    /\ Weights(progress)[b] = 0
    /\ Weights(loadProgress(storedProgress, EmptyProgress)) = Weights(progress)
----------------------------------------------------------------------------
(* Properties of the truncation, checked under SpecBuild *)

\* C27: when smart review is built on a bank of more than BatchSize
\* questions, every bank question left out of the queue has a weight that
\* is at most the weight of every question of the queue.
C27_TruncationKeepsHighest ==
  (BuiltBySmartReview /\ Len(bank) > BatchSize) =>
    \A out \in Range(bank) \ Range(currentQueue) :
      \A in \in Range(currentQueue) :
        getWeight(progress, out) <= getWeight(progress, in)

\* a mastered question is left out, a hard one is in the queue, and new
\* questions are on both sides of the cut
C27_Witness ==
  /\ BuiltBySmartReview /\ Len(bank) > BatchSize
  /\ \E out \in Range(bank) \ Range(currentQueue) : getWeight(progress, out) = 0
  /\ \E out \in Range(bank) \ Range(currentQueue) : getWeight(progress, out) = 3
  /\ \E in \in Range(currentQueue) : getWeight(progress, in) = 4
  /\ \E in \in Range(currentQueue) : getWeight(progress, in) = 3
----------------------------------------------------------------------------
(* Properties of what storage holds, checked under Spec *)

\* the progress map a restart would load
StoredMap == loadProgress(storedProgress, EmptyProgress)

\* C28: in every state, the states between the progress write and the
\* session write of one answer included, when the stored session is in
\* STUDY mode every question at a position before its index has a record
\* with reviewCount >= 1 in the stored progress map.
C28_ProgressStoredBeforeCursor ==
  (Parses(storedSession) /\ JSONparse(storedSession).mode = STUDY) =>
    LET saved == JSONparse(storedSession)
    IN \A k \in 1..saved.index :
         /\ saved.queue[k] \in DOMAIN StoredMap
         /\ StoredMap[saved.queue[k]].reviewCount >= 1

\* a restart finds a stored session at index 1 and the stored record of
\* the question answered before it
C28_Witness ==
  /\ loading
  /\ Parses(storedSession)
  /\ JSONparse(storedSession).mode = STUDY
  /\ JSONparse(storedSession).index = 1
  /\ StoredMap[JSONparse(storedSession).queue[1]].reviewCount = 1
----------------------------------------------------------------------------
(* Dashboard: src/components/Dashboard.tsx, and its properties, checked    *)
(* under Spec                                                              *)

totalQuestions == Len(bank)

\* Object.values(progress).filter(p => p.status === 'mastered').length
masteredCount == Cardinality({id \in DOMAIN progress : progress[id].status = "mastered"})

\* Object.values(progress).filter(p => p.status === 'learning').length
hardQuestionsCount == Cardinality({id \in DOMAIN progress : progress[id].status = "learning"})

newQuestionsCount == totalQuestions - masteredCount - hardQuestionsCount

\* C29: in every state every key of the progress map is the id of a bank
\* question, and the three counts of the dashboard are the numbers of bank
\* questions that are mastered, learning and without a record: they add up
\* to the size of the bank and none is negative.
C29_DashboardCountsPartitionBank ==
  /\ DOMAIN progress \subseteq Range(bank)
  /\ masteredCount = Cardinality({id \in Range(bank) : statusOf(progress, id) = "mastered"})
  /\ hardQuestionsCount = Cardinality({id \in Range(bank) : statusOf(progress, id) = "learning"})
  /\ newQuestionsCount = Cardinality({id \in Range(bank) : statusOf(progress, id) = "new"})
  /\ masteredCount + hardQuestionsCount + newQuestionsCount = Len(bank)
  /\ newQuestionsCount >= 0

\* the dashboard of a bank of two: one mastered, one learning, none new
C29_Witness ==
  /\ DashboardShown
  /\ masteredCount = 1
  /\ hardQuestionsCount = 1
  /\ newQuestionsCount = 0
----------------------------------------------------------------------------
(* Properties of the dashboard controls, checked under Spec *)

\* a step of startSession, with any arguments and draws
StartStep == StartReview \/ StartCategory

\* C30: startSession and resetProgress can be called only in DASHBOARD mode:
\* in STUDY mode neither is enabled, no step taken in STUDY mode is one of
\* them, the queue of a session in STUDY mode is not replaced by another
\* build, and no step taken in STUDY mode empties the progress map or
\* removes the stored one.
C30_StartAndResetOnlyWhileIdle ==
  /\ [](mode = STUDY => ~ENABLED StartStep /\ ~ENABLED Reset)
  /\ [][mode = STUDY =>
          /\ ~StartStep
          /\ ~Reset
          /\ mode' = STUDY => (currentQueue' = currentQueue /\ request' = request)
          /\ DOMAIN progress \subseteq DOMAIN progress' \/ loading'
          /\ storedProgress' # NoItem \/ storedProgress = NoItem]_vars

\* the study view is shown on the second card, with a record in the map
C30_Witness ==
  /\ StudyShown
  /\ currentIndex = 1
  /\ progress # EmptyProgress
  /\ ~ENABLED StartStep
  /\ ~ENABLED Reset
  /\ ENABLED SubmitAnswer
====
